---- MODULE Spec2Model ----
(***************************************************************************)
(* Model of the swap plugin of libblockdev (src/plugins/swap.c):           *)
(* bd_swap_swapon (probe the swap signature, then run swapon) and          *)
(* bd_swap_swapstatus (resolve a device-mapper alias, then scan            *)
(* /proc/swaps).  C strings are sequences of one-character strings; the    *)
(* byte 0 is the character NUL.                                            *)
(***************************************************************************)
EXTENDS Integers, Sequences, FiniteSets, TLC

VARIABLES
    pc,               \* position of the single caller thread
    device,           \* argument `device` of the running call
    priority,         \* argument `priority` of bd_swap_swapon
    disk,             \* the 10 bytes on the device at the probe offset
    sysPageSize,      \* what getpagesize () returned
    page_size,        \* local page_size after CLAMP
    seekOffset,       \* offset handed to g_io_channel_seek_position
    readCount,        \* count handed to g_io_channel_read_chars
    numReads,         \* number of g_io_channel_read_chars calls of the call
    num_read,         \* local num_read
    dev_status,       \* local dev_status[11]
    probeFail,        \* which probe step failed ("none" if none)
    execCalls,        \* argv's handed to bd_utils_exec_and_report_error
    execResult,       \* what the executor returned for the last argv
    diskAtExec,       \* the device's signature when the command was run
    writtenSinceProbe,\* another actor wrote the device after the read
    success,          \* return value of the call
    error_message,    \* *error_message
    file_content,     \* bd_swap_swapstatus: contents of /proc/swaps
    length,           \* bd_swap_swapstatus: length of file_content
    base,             \* address of file_content[0]
    symlink,          \* bd_swap_swapstatus: local symlink
    real_device,      \* bd_swap_swapstatus: local real_device
    next_line,        \* bd_swap_swapstatus: local next_line (an address)
    tested,           \* offsets of file_content tested for a match
    lastOffset,       \* offset of the line start tested last
    linkReads         \* number of g_file_read_link calls of the call

vars == <<pc, device, priority, disk, sysPageSize, page_size, seekOffset,
          readCount, numReads, num_read, dev_status, probeFail, execCalls,
          execResult, diskAtExec, writtenSinceProbe, success, error_message,
          file_content, length, base, symlink, real_device, next_line,
          tested, lastOffset, linkReads>>

swaponVars == <<priority, disk, sysPageSize, page_size, seekOffset, readCount,
                numReads, num_read, dev_status, probeFail, execCalls,
                execResult, diskAtExec, writtenSinceProbe>>

statusVars == <<file_content, length, base, symlink, real_device, next_line,
                tested, lastOffset, linkReads>>

----------------------------------------------------------------------------
(* Bounds of the model *)

MaxPriority == 11
MaxLines == 3
PtrBits == 16

----------------------------------------------------------------------------
(* Characters and strings *)

NUL == "NUL"
NL == "\n"
NULLPTR == <<"NULL">>
UNSET == <<"unset">>
NO_VALUE == "unset"
G_TRUE == "TRUE"
G_FALSE == "FALSE"

SIG_OLD == <<"S", "W", "A", "P", "-", "S", "P", "A", "C", "E">>
SIG_S1 == <<"S", "1", "S", "U", "S", "P", "E", "N", "D">>
SIG_S2 == <<"S", "2", "S", "U", "S", "P", "E", "N", "D">>
SIG_V2 == <<"S", "W", "A", "P", "S", "P", "A", "C", "E", "2">>

STR_swapon == <<"s", "w", "a", "p", "o", "n">>
STR_p == <<"-", "p">>
STR_dev_mapper == <<"/", "d", "e", "v", "/", "m", "a", "p", "p", "e", "r">>
STR_dev == <<"/", "d", "e", "v", "/">>

DEV_sda1 == <<"/", "d", "e", "v", "/", "s", "d", "a", "1">>
DEV_sda12 == <<"/", "d", "e", "v", "/", "s", "d", "a", "1", "2">>
DEV_dm2 == <<"/", "d", "e", "v", "/", "d", "m", "-", "2">>
DEV_vglv == <<"/", "d", "e", "v", "/", "m", "a", "p", "p", "e", "r", "/", "v", "g", "-", "l", "v">>
DEV_mapperX == <<"/", "d", "e", "v", "/", "m", "a", "p", "p", "e", "r", "X", "/", "v", "g", "-", "l", "v">>

MSG_OLD == <<"Old swap format, cannot activate.">>
MSG_SUSPEND == <<"Suspended system on the swap device, cannot activate.">>
MSG_UNKNOWN == <<"Unknown swap space format, cannot activate.">>
MSG_STATE == "Failed to determine device's state: "

(* strlen: the characters before the first NUL *)
CStr(s) ==
    LET nuls == {i \in 1..Len(s) : s[i] = NUL}
    IN  IF nuls = {} THEN s
        ELSE SubSeq(s, 1, (CHOOSE i \in nuls : \A j \in nuls : i <= j) - 1)

(* g_str_has_prefix (str, prefix) *)
g_str_has_prefix(str, prefix) ==
    LET s == CStr(str)
        p == CStr(prefix)
    IN  /\ Len(s) >= Len(p)
        /\ SubSeq(s, 1, Len(p)) = p

(* CLAMP without its lower limit *)
CLAMP_NoLowerLimit(x, low, high) ==
    IF x > high THEN high ELSE x

(* CLAMP (x, low, high) of glib *)
CLAMP(x, low, high) ==
    IF x > high THEN high ELSE IF x < low THEN low ELSE x

(* g_strdup_printf ("%d", n) *)
Digit(d) == <<"0", "1", "2", "3", "4", "5", "6", "7", "8", "9">>[d + 1]

RECURSIVE FmtNat(_)
FmtNat(n) ==
    IF n < 10 THEN <<Digit(n)>> ELSE FmtNat(n \div 10) \o <<Digit(n % 10)>>

FmtInt(n) == IF n < 0 THEN <<"-">> \o FmtNat(0 - n) ELSE FmtNat(n)

----------------------------------------------------------------------------
(* Inputs *)

Perturb(s) == {[s EXCEPT ![i] = c] : i \in 1..Len(s), c \in {"X", NUL}}

Signatures ==
    UNION {Perturb(s) \cup {s} :
           s \in {SIG_OLD, SIG_V2, SIG_S1 \o <<NUL>>, SIG_S1 \o <<"X">>,
                  SIG_S2 \o <<NUL>>}}

WriterSignatures == {SIG_S1 \o <<NUL>>, SIG_V2, SIG_OLD}

Priorities == (0 - 2)..MaxPriority

PageSizes == {1, 1024, 2047, 2048, 2049, 4096}

SwaponDevices == {DEV_sda1, DEV_vglv}

ShortCounts == {0, 1, 9}

StatusDevices == {DEV_sda1, DEV_sda12, DEV_dm2, DEV_vglv, DEV_mapperX}

LINE_header == <<"F", "i", "l", "e", "n", "a", "m", "e", " ", "T", "y", "p", "e">>
LINE_sda12 == <<"/", "d", "e", "v", "/", "s", "d", "a", "1", "2", " ", "p", "a", "r", "t">>
LINE_dm2 == <<"/", "d", "e", "v", "/", "d", "m", "-", "2", " ", "p", "a", "r", "t">>
(* a line that holds a device path, but not at its start *)
LINE_inner == <<"x", "/", "d", "e", "v", "/", "s", "d", "a", "1", "2">>

RegistryLines == {LINE_header, LINE_sda12, LINE_dm2, LINE_inner, <<>>}

(* the text of a registry of the given lines *)
RECURSIVE JoinLines(_, _)
JoinLines(ls, trailing) ==
    IF ls = <<>> THEN (IF trailing THEN <<NL>> ELSE <<>>)
    ELSE IF Len(ls) = 1 THEN Head(ls) \o (IF trailing THEN <<NL>> ELSE <<>>)
    ELSE Head(ls) \o <<NL>> \o JoinLines(Tail(ls), trailing)

Registries ==
    {JoinLines(ls, t) :
       ls \in UNION {[1..n -> RegistryLines] : n \in 0..MaxLines}, t \in BOOLEAN}

LINK_dm2 == <<".", ".", "/", "d", "m", "-", "2">>
(* a target without the leading ../ *)
LINK_bare == <<"d", "m", "-", "2">>
LINK_short == <<".", ".">>

LinkTargets == {LINK_dm2, LINK_bare, LINK_short}

(* what a read past the end of a link target of fewer than 3 characters
   can find *)
StrayStrings == {<<>>, <<"d", "m", "-", "2">>}

(* addresses are PtrBits wide *)
AddrSpace == 2 ^ PtrBits

(* where the allocator can put a buffer of len characters and its NUL *)
BufferAddresses(len) == {AddrSpace \div 2, AddrSpace - 1 - len}

----------------------------------------------------------------------------
(* bd_swap_swapon *)

Blank ==
    /\ device = <<>>
    /\ priority = 0
    /\ disk = <<>>
    /\ sysPageSize = 0
    /\ page_size = 0
    /\ seekOffset = 0
    /\ readCount = 0
    /\ numReads = 0
    /\ num_read = 0
    /\ dev_status = <<>>
    /\ probeFail = "none"
    /\ execCalls = <<>>
    /\ execResult = NO_VALUE
    /\ diskAtExec = <<>>
    /\ writtenSinceProbe = FALSE
    /\ success = NO_VALUE
    /\ error_message = UNSET
    /\ file_content = <<>>
    /\ length = 0
    /\ base = 0
    /\ symlink = NULLPTR
    /\ real_device = NULLPTR
    /\ next_line = 0
    /\ tested = {}
    /\ lastOffset = 0
    /\ linkReads = 0

Init == pc = "idle" /\ Blank

(* the call: the caller passes device and priority; the device holds some
   signature *)
SwaponCall ==
    /\ pc = "idle"
    /\ \E d \in SwaponDevices, p \in Priorities, sig \in Signatures :
          /\ device' = d
          /\ priority' = p
          /\ disk' = sig
    /\ pc' = "sw_open"
    /\ UNCHANGED <<sysPageSize, page_size, seekOffset, readCount, numReads,
                   num_read, dev_status, probeFail, execCalls, execResult,
                   diskAtExec, writtenSinceProbe, success, error_message>>
    /\ UNCHANGED statusVars

(* lines 85-90: g_io_channel_new_file *)
SwaponOpen ==
    /\ pc = "sw_open"
    /\ \/ /\ pc' = "sw_seek"
          /\ UNCHANGED <<probeFail, success, error_message>>
       \/ /\ error_message' = <<"GError: open">>
          /\ probeFail' = "open"
          /\ success' = G_FALSE
          /\ pc' = "done"
    /\ UNCHANGED <<device, priority, disk, sysPageSize, page_size, seekOffset,
                   readCount, numReads, num_read, dev_status, execCalls,
                   execResult, diskAtExec, writtenSinceProbe>>
    /\ UNCHANGED statusVars

(* lines 92-100: getpagesize, CLAMP, g_io_channel_seek_position *)
SwaponSeek ==
    /\ pc = "sw_seek"
    /\ \E ps \in PageSizes :
          /\ sysPageSize' = ps
          /\ page_size' = CLAMP(ps, 2048, ps)
          /\ seekOffset' = CLAMP(ps, 2048, ps) - 10
    /\ \/ /\ pc' = "sw_read"
          /\ UNCHANGED <<probeFail, success, error_message>>
       \/ /\ error_message' = <<MSG_STATE, "GError: seek">>
          /\ probeFail' = "seek"
          /\ success' = G_FALSE
          /\ pc' = "done"
    /\ UNCHANGED <<device, priority, disk, readCount, numReads, num_read,
                   dev_status, execCalls, execResult, diskAtExec,
                   writtenSinceProbe>>
    /\ UNCHANGED statusVars

(* lines 102-108: g_io_channel_read_chars and the check of its result.
   With G_IO_STATUS_EOF, or G_IO_STATUS_NORMAL and fewer than 10 bytes, the
   I/O layer leaves error NULL and line 104 reads error->message. *)
SwaponRead ==
    /\ pc = "sw_read"
    /\ readCount' = 10
    /\ numReads' = numReads + 1
    /\ \/ (* G_IO_STATUS_NORMAL, 10 bytes *)
          /\ num_read' = 10
          /\ dev_status' = disk \o <<NUL>>
          /\ pc' = "sw_classify"
          /\ UNCHANGED <<probeFail, success, error_message>>
       \/ (* G_IO_STATUS_ERROR with a GError *)
          /\ num_read' = 0
          /\ dev_status' = dev_status
          /\ error_message' = <<MSG_STATE, "GError: read">>
          /\ probeFail' = "read_error"
          /\ success' = G_FALSE
          /\ pc' = "done"
       \/ (* short read or end of file, error == NULL: the dereference
             of NULL traps *)
          /\ \E n \in ShortCounts :
                /\ num_read' = n
                /\ dev_status' = SubSeq(disk, 1, n)
          /\ probeFail' = "short"
          /\ pc' = "crashed"
          /\ UNCHANGED <<success, error_message>>
       \/ (* short read or end of file, error == NULL: the dereference
             of NULL yields whatever lies there *)
          /\ \E n \in ShortCounts :
                /\ num_read' = n
                /\ dev_status' = SubSeq(disk, 1, n)
          /\ probeFail' = "short"
          /\ error_message' = <<MSG_STATE, "garbage">>
          /\ success' = G_FALSE
          /\ pc' = "done"
    /\ UNCHANGED <<device, priority, disk, sysPageSize, page_size, seekOffset,
                   execCalls, execResult, diskAtExec, writtenSinceProbe>>
    /\ UNCHANGED statusVars

(* Refusal without the test for a suspended image *)
Refusal_NoSuspendTest(status) ==
    IF g_str_has_prefix(status, SIG_OLD) THEN MSG_OLD
    ELSE IF ~g_str_has_prefix(status, SIG_V2) THEN MSG_UNKNOWN
    ELSE NULLPTR

(* Refusal without the test for an unknown format *)
Refusal_NoUnknownTest(status) ==
    IF g_str_has_prefix(status, SIG_OLD) THEN MSG_OLD
    ELSE IF g_str_has_prefix(status, SIG_S1) \/ g_str_has_prefix(status, SIG_S2)
         THEN MSG_SUSPEND
    ELSE NULLPTR

(* Refusal that tests the first four characters only *)
Refusal_ShortCompare(status) ==
    IF g_str_has_prefix(status, SIG_OLD) THEN MSG_OLD
    ELSE IF g_str_has_prefix(status, SIG_S1) \/ g_str_has_prefix(status, SIG_S2)
         THEN MSG_SUSPEND
    ELSE IF ~g_str_has_prefix(status, SubSeq(SIG_V2, 1, 4)) THEN MSG_UNKNOWN
    ELSE NULLPTR

(* lines 112-121: the message of the refusal, or NULLPTR to go on *)
Refusal(status) ==
    IF g_str_has_prefix(status, SIG_OLD) THEN MSG_OLD
    ELSE IF g_str_has_prefix(status, SIG_S1) \/ g_str_has_prefix(status, SIG_S2)
         THEN MSG_SUSPEND
    ELSE IF ~g_str_has_prefix(status, SIG_V2) THEN MSG_UNKNOWN
    ELSE NULLPTR

(* lines 110-121 *)
SwaponClassify ==
    /\ pc = "sw_classify"
    /\ IF Refusal(dev_status) # NULLPTR
       THEN /\ error_message' = Refusal(dev_status)
            /\ success' = G_FALSE
            /\ pc' = "done"
       ELSE /\ pc' = "sw_exec"
            /\ UNCHANGED <<success, error_message>>
    /\ UNCHANGED <<device>>
    /\ UNCHANGED swaponVars
    /\ UNCHANGED statusVars

(* SwaponArgv that leaves out the priority 0 *)
SwaponArgv_PositiveOnly(dev, prio) ==
    IF prio > 0
    THEN <<STR_swapon, STR_p, FmtInt(prio), dev>>
    ELSE <<STR_swapon, dev>>

(* lines 82, 123-131: the argument vector *)
SwaponArgv(dev, prio) ==
    IF prio >= 0
    THEN <<STR_swapon, STR_p, FmtInt(prio), dev>>
    ELSE <<STR_swapon, dev>>

(* lines 123-138: bd_utils_exec_and_report_error and the return *)
SwaponExec ==
    /\ pc = "sw_exec"
    /\ execCalls' = Append(execCalls, SwaponArgv(device, priority))
    /\ diskAtExec' = disk
    /\ \E ok \in BOOLEAN :
          /\ execResult' = (IF ok THEN G_TRUE ELSE G_FALSE)
          /\ success' = (IF ok THEN G_TRUE ELSE G_FALSE)
          /\ error_message' = IF ok THEN error_message ELSE <<"exec: swapon failed">>
    /\ pc' = "done"
    /\ UNCHANGED <<device, priority, disk, sysPageSize, page_size, seekOffset,
                   readCount, numReads, num_read, dev_status, probeFail,
                   writtenSinceProbe>>
    /\ UNCHANGED statusVars

(* another actor writes the signature while the call runs: the call holds
   no lock on the device between line 85 and line 133 *)
DeviceWriter ==
    /\ pc \in {"sw_open", "sw_seek", "sw_read", "sw_classify", "sw_exec"}
    /\ \E sig \in WriterSignatures :
          /\ sig # disk
          /\ disk' = sig
    /\ writtenSinceProbe' = (writtenSinceProbe \/ pc \in {"sw_classify", "sw_exec"})
    /\ UNCHANGED <<pc, device, priority, sysPageSize, page_size, seekOffset,
                   readCount, numReads, num_read, dev_status, probeFail,
                   execCalls, execResult, diskAtExec, success, error_message>>
    /\ UNCHANGED statusVars

----------------------------------------------------------------------------
(* bd_swap_swapstatus *)

(* the offset in file_content of the address p: (gsize) (p - file_content) *)
OffsetOf(p) == (p - base + AddrSpace) % AddrSpace

(* StringAt that always yields the start of the buffer *)
StringAt_BufferStart(p) == file_content

(* the C string at address p of the buffer *)
StringAt(p) == SubSeq(file_content, OffsetOf(p) + 1, Len(file_content))

(* strchr (p, '\n'): the address of the first newline of the string at p,
   or 0 *)
strchr_nl(p) ==
    LET o == OffsetOf(p)
        hits == {i \in (o + 1)..Len(file_content) : file_content[i] = NL}
    IN  IF hits = {} THEN 0
        ELSE base + (CHOOSE i \in hits : \A j \in hits : i <= j) - 1

(* strchr (p, '\n') + 1 *)
NextLineAfter(p) == (strchr_nl(p) + 1) % AddrSpace

(* real_device ? real_device : device *)
Wanted == IF real_device # NULLPTR THEN real_device ELSE device

(* LoopCondition without the test against length *)
LoopCondition_NoLengthTest == next_line # 0

(* line 204: the condition of the while loop *)
LoopCondition == next_line # 0 /\ OffsetOf(next_line) < length

(* IsMapperPath that takes every path under /dev/ *)
IsMapperPath_AnyDev(d) == g_str_has_prefix(d, STR_dev)

(* line 181: is the link of the device read *)
IsMapperPath(d) == g_str_has_prefix(d, STR_dev_mapper)

(* line 190: g_strdup_printf ("/dev/%s", symlink + 3) *)
RealDevices(link) ==
    IF Len(link) >= 3
    THEN {STR_dev \o SubSeq(link, 4, Len(link))}
    ELSE {STR_dev \o g : g \in StrayStrings}

(* the call and lines 172-177: g_file_get_contents ("/proc/swaps") *)
StatusCall ==
    /\ pc = "idle"
    /\ \E d \in StatusDevices : device' = d
    /\ \/ \E text \in Registries :
             /\ file_content' = text
             /\ length' = Len(text)
             /\ base' \in BufferAddresses(Len(text))
             /\ pc' = "st_resolve"
             /\ UNCHANGED <<success, error_message>>
       \/ /\ error_message' = <<"GError: read /proc/swaps">>
          /\ success' = G_FALSE
          /\ pc' = "done"
          /\ UNCHANGED <<file_content, length, base>>
    /\ UNCHANGED <<symlink, real_device, next_line, tested, lastOffset,
                   linkReads>>
    /\ UNCHANGED swaponVars

(* lines 179-194: the device node of a device-mapper alias *)
StatusResolve ==
    /\ pc = "st_resolve"
    /\ IF IsMapperPath(device)
       THEN /\ linkReads' = linkReads + 1
            /\ \/ \E link \in LinkTargets :
                     /\ symlink' = link
                     /\ real_device' \in RealDevices(link)
                     /\ error_message' = NULLPTR
                     /\ pc' = "st_first"
                     /\ UNCHANGED success
               \/ /\ error_message' = <<"GError: readlink">>
                  /\ success' = G_FALSE
                  /\ pc' = "done"
                  /\ UNCHANGED <<symlink, real_device>>
       ELSE /\ error_message' = NULLPTR
            /\ pc' = "st_first"
            /\ UNCHANGED <<symlink, real_device, linkReads, success>>
    /\ UNCHANGED <<device, file_content, length, base, next_line, tested,
                   lastOffset>>
    /\ UNCHANGED swaponVars

(* lines 196-203: the first line *)
StatusFirst ==
    /\ pc = "st_first"
    /\ tested' = tested \cup {0}
    /\ lastOffset' = 0
    /\ IF g_str_has_prefix(file_content, Wanted)
       THEN /\ success' = G_TRUE
            /\ pc' = "done"
            /\ UNCHANGED next_line
       ELSE /\ next_line' = NextLineAfter(base)
            /\ pc' = "st_loop"
            /\ UNCHANGED success
    /\ UNCHANGED <<device, error_message, file_content, length, base, symlink,
                   real_device, linkReads>>
    /\ UNCHANGED swaponVars

(* lines 204-213: one iteration of the loop *)
StatusIterate ==
    /\ pc = "st_loop"
    /\ LoopCondition
    /\ tested' = tested \cup {OffsetOf(next_line)}
    /\ lastOffset' = OffsetOf(next_line)
    /\ IF g_str_has_prefix(StringAt(next_line), Wanted)
       THEN /\ success' = G_TRUE
            /\ pc' = "done"
            /\ UNCHANGED next_line
       ELSE /\ next_line' = NextLineAfter(next_line)
            /\ UNCHANGED <<pc, success>>
    /\ UNCHANGED <<device, error_message, file_content, length, base, symlink,
                   real_device, linkReads>>
    /\ UNCHANGED swaponVars

(* lines 204, 215-218: the loop ends without a match *)
StatusFinish ==
    /\ pc = "st_loop"
    /\ ~LoopCondition
    /\ success' = G_FALSE
    /\ pc' = "done"
    /\ UNCHANGED <<device, error_message>>
    /\ UNCHANGED statusVars
    /\ UNCHANGED swaponVars

(* the caller takes the result; the locals of the call are gone *)
Return ==
    /\ pc = "done"
    /\ pc' = "idle"
    /\ device' = <<>>
    /\ priority' = 0
    /\ disk' = <<>>
    /\ sysPageSize' = 0
    /\ page_size' = 0
    /\ seekOffset' = 0
    /\ readCount' = 0
    /\ numReads' = 0
    /\ num_read' = 0
    /\ dev_status' = <<>>
    /\ probeFail' = "none"
    /\ execCalls' = <<>>
    /\ execResult' = NO_VALUE
    /\ diskAtExec' = <<>>
    /\ writtenSinceProbe' = FALSE
    /\ success' = NO_VALUE
    /\ error_message' = UNSET
    /\ file_content' = <<>>
    /\ length' = 0
    /\ base' = 0
    /\ symlink' = NULLPTR
    /\ real_device' = NULLPTR
    /\ next_line' = 0
    /\ tested' = {}
    /\ lastOffset' = 0
    /\ linkReads' = 0

Next ==
    \/ SwaponCall
    \/ SwaponOpen
    \/ SwaponSeek
    \/ SwaponRead
    \/ SwaponClassify
    \/ SwaponExec
    \/ DeviceWriter
    \/ StatusCall
    \/ StatusResolve
    \/ StatusFirst
    \/ StatusIterate
    \/ StatusFinish
    \/ Return

Spec == Init /\ [][Next]_vars

(* bd_swap_swapstatus alone; a call that has started runs on *)
NextStatus ==
    \/ StatusCall
    \/ StatusResolve
    \/ StatusFirst
    \/ StatusIterate
    \/ StatusFinish
    \/ Return

(* a step of a running bd_swap_swapstatus call *)
StatusStep == StatusResolve \/ StatusFirst \/ StatusIterate \/ StatusFinish

SpecStatus == Init /\ [][NextStatus]_vars /\ WF_vars(StatusStep)

----------------------------------------------------------------------------
(* Properties *)

(* the byte sequence b begins with the bytes of p *)
StartsWith(b, p) ==
    /\ Len(b) >= Len(p)
    /\ \A i \in 1..Len(p) : b[i] = p[i]

(* the 10 bytes the probe of the call has read *)
Probed == SubSeq(dev_status, 1, 10)
HasProbed == numReads = 1 /\ num_read = 10
SwaponDone == pc = "done" /\ disk # <<>>
StatusDone == pc = "done" /\ device # <<>> /\ disk = <<>>

(* C1: a device whose probed bytes are the legacy signature or one of the
   two suspended-image signatures is refused with the message of its format
   and no command is run; a swapon command has been run only after a probe
   of the call that read SWAPSPACE2. *)
C1_DangerousFormatsRefused ==
    /\ (HasProbed /\ StartsWith(Probed, SIG_OLD))
          => /\ execCalls = <<>>
             /\ pc = "done" => (success = G_FALSE /\ error_message = MSG_OLD)
    /\ (HasProbed /\ (StartsWith(Probed, SIG_S1) \/ StartsWith(Probed, SIG_S2)))
          => /\ execCalls = <<>>
             /\ pc = "done" => (success = G_FALSE /\ error_message = MSG_SUSPEND)
    /\ execCalls # <<>> => (HasProbed /\ Probed = SIG_V2)

C1_Witness ==
    /\ SwaponDone
    /\ HasProbed
    /\ Probed = SIG_S1 \o <<NUL>>
    /\ error_message = MSG_SUSPEND
    /\ execCalls = <<>>

(* C2 as stated: every 10-byte sequence that is not equal to one of the
   four recognized prefixes is refused as an unknown format and no command
   is run. *)
C2_NotEqualIsUnknown ==
    (SwaponDone /\ HasProbed /\ Probed \notin {SIG_OLD, SIG_S1, SIG_S2, SIG_V2})
       => (success = G_FALSE /\ error_message = MSG_UNKNOWN /\ execCalls = <<>>)

(* C2 amended: every 10-byte sequence that does not begin with one of the
   four recognized prefixes is refused as an unknown format and no command
   is run. *)
C2_NoPrefixIsUnknown ==
    (HasProbed /\ \A p \in {SIG_OLD, SIG_S1, SIG_S2, SIG_V2} : ~StartsWith(Probed, p))
       => /\ execCalls = <<>>
          /\ pc = "done" => (success = G_FALSE /\ error_message = MSG_UNKNOWN)

C2_Witness ==
    /\ SwaponDone
    /\ HasProbed
    /\ Probed = [SIG_V2 EXCEPT ![10] = "X"]
    /\ error_message = MSG_UNKNOWN

(* the text s is the decimal numeral of the natural number n *)
DigitValue(c) ==
    CHOOSE d \in 0..9 : <<"0", "1", "2", "3", "4", "5", "6", "7", "8", "9">>[d + 1] = c

RECURSIVE NumeralValue(_)
NumeralValue(s) ==
    IF s = <<>> THEN 0
    ELSE 10 * NumeralValue(SubSeq(s, 1, Len(s) - 1)) + DigitValue(s[Len(s)])

IsNumeralOf(s, n) ==
    /\ Len(s) >= 1
    /\ \A i \in 1..Len(s) : s[i] \in {"0", "1", "2", "3", "4", "5", "6", "7", "8", "9"}
    /\ Len(s) > 1 => s[1] # "0"
    /\ NumeralValue(s) = n

(* C3: when the probe read SWAPSPACE2 the executor is called exactly once
   and its result is returned; the arguments are swapon, device for a
   negative priority and swapon, -p, the decimal numeral of the priority,
   device for a priority of 0 or more. *)
C3_ActivationCommand ==
    /\ Len(execCalls) <= 1
    /\ (SwaponDone /\ HasProbed /\ Probed = SIG_V2)
          => /\ Len(execCalls) = 1
             /\ success = execResult
             /\ priority < 0 => execCalls[1] = <<STR_swapon, device>>
             /\ priority >= 0
                   => /\ Len(execCalls[1]) = 4
                      /\ execCalls[1][1] = STR_swapon
                      /\ execCalls[1][2] = STR_p
                      /\ IsNumeralOf(execCalls[1][3], priority)
                      /\ execCalls[1][4] = device

C3_Witness ==
    /\ SwaponDone
    /\ priority = 10
    /\ execCalls = <<<<STR_swapon, STR_p, <<"1", "0">>, DEV_vglv>>>>
    /\ success = G_TRUE

(* the lines of a text: the characters between its newlines *)
LineStarts(text) == {0} \cup {i \in 1..Len(text) : text[i] = NL}

LineAt(text, start) ==
    LET ends == {i \in (start + 1)..Len(text) : text[i] = NL}
        stop == IF ends = {} THEN Len(text) + 1
                ELSE CHOOSE i \in ends : \A j \in ends : i <= j
    IN  SubSeq(text, start + 1, stop - 1)

LinesOf(text) == {LineAt(text, st) : st \in LineStarts(text)}

(* the path the registry is searched for *)
ResolvedDevice == IF symlink # NULLPTR THEN real_device ELSE device

(* C4: with a readable registry the answer is TRUE exactly if some line of
   the registry, the header included, begins with the resolved device path;
   so /dev/sda1 is reported active when only /dev/sda12 is listed. *)
C4_ActiveIffSomeLineHasPrefix ==
    (StatusDone /\ error_message = NULLPTR)
       => (success = G_TRUE <=> \E l \in LinesOf(file_content) : StartsWith(l, ResolvedDevice))

C4_Witness ==
    /\ StatusDone
    /\ device = DEV_sda1
    /\ file_content = LINE_header \o <<NL>> \o LINE_inner \o <<NL>> \o LINE_sda12 \o <<NL>>
    /\ success = G_TRUE

(* the path lies under the device-mapper display namespace *)
UnderMapperNamespace(d) == StartsWith(d, STR_dev_mapper \o <<"/">>)

(* C5: a path under /dev/mapper/ whose link target is ../name resolves to
   /dev/name; every path not under /dev/mapper/ is used unchanged and no
   link is read for it. *)
C5_Resolution ==
    /\ (UnderMapperNamespace(device) /\ symlink # NULLPTR
          /\ StartsWith(symlink, <<".", ".", "/">>))
          => ResolvedDevice = STR_dev \o SubSeq(symlink, 4, Len(symlink))
    /\ (device # <<>> /\ ~UnderMapperNamespace(device))
          => (linkReads = 0 /\ symlink = NULLPTR /\ real_device = NULLPTR)

(* C6 as stated: with a readable registry the call reports no error and
   returns the answer. *)
C6_FailsOnlyOnRegistry ==
    (StatusDone /\ base # 0)
       => (error_message = NULLPTR /\ success \in {G_TRUE, G_FALSE})

(* C6 amended: with a readable registry, and for a device whose path begins
   with /dev/mapper a readable link, the call reports no error and returns
   the answer; it fails only if the registry or that link cannot be read. *)
C6_FailsOnlyOnRegistryOrLink ==
    StatusDone
       => /\ (base # 0 /\ (StartsWith(device, STR_dev_mapper) => symlink # NULLPTR))
                => (error_message = NULLPTR /\ success \in {G_TRUE, G_FALSE})
          /\ error_message # NULLPTR
                => (base = 0 \/ (StartsWith(device, STR_dev_mapper) /\ symlink = NULLPTR))

C6_Witness ==
    /\ StatusDone
    /\ device = DEV_vglv
    /\ symlink = LINK_dm2
    /\ error_message = NULLPTR
    /\ success = G_TRUE

(* C7: when the open, the seek or the read of the probe fails, a short read
   or end of file without an error object included, the call returns
   failure with an error message, has read at most once and has run no
   command. *)
C7_ProbeFailureReported ==
    probeFail # "none"
       => /\ pc = "done"
          /\ success = G_FALSE
          /\ error_message \notin {UNSET, NULLPTR, <<MSG_STATE, "garbage">>}
          /\ numReads <= 1
          /\ execCalls = <<>>

(* C8: the signature is read at offset max(pageSize, 2048) - 10, which is
   2038 for a page size below 2048 and pageSize - 10 otherwise, and exactly
   10 bytes are requested. *)
C8_ProbeOffset ==
    /\ sysPageSize > 0
          => /\ seekOffset = (IF sysPageSize >= 2048 THEN sysPageSize ELSE 2048) - 10
             /\ sysPageSize < 2048 => seekOffset = 2038
             /\ sysPageSize >= 2048 => seekOffset = sysPageSize - 10
    /\ numReads > 0 => readCount = 10

C8_Witness ==
    /\ sysPageSize = 1024
    /\ seekOffset = 2038
    /\ numReads = 1
    /\ readCount = 10

(* C9: the probe and the command are separate steps with no lock between
   them; only when nothing wrote the device after the probe is the
   signature at the time of the command SWAPSPACE2.  The witness is the
   race: the command is run although the device then holds S1SUSPEND. *)
C9_SignatureAtCommandTime ==
    /\ pc = "sw_exec" => Probed = SIG_V2
    /\ (execCalls # <<>> /\ ~writtenSinceProbe) => diskAtExec = SIG_V2

C9_Witness ==
    /\ execCalls # <<>>
    /\ writtenSinceProbe
    /\ diskAtExec = SIG_S1 \o <<NUL>>
    /\ Probed = SIG_V2

(* the scan of a bd_swap_swapstatus call is under way *)
Scanning == pc \in {"st_first", "st_loop"}

(* one iteration of the loop that goes on to another line *)
ScanAdvances == pc = "st_loop" /\ pc' = "st_loop" /\ next_line' # next_line

(* the offset after the first newline at or after offset o, if any *)
AfterNewline(text, o) ==
    LET ends == {i \in (o + 1)..Len(text) : text[i] = NL}
    IN  IF ends = {} THEN 0 - 1 ELSE CHOOSE i \in ends : \A j \in ends : i <= j

(* C10 as stated: the scan ends, each iteration moves the position
   strictly forward to the character after the next newline, and no line
   start at or beyond the length of the content is tested. *)
C10_ScanTerminatesInBounds ==
    /\ [](\A o \in tested : o < length)
    /\ [][ScanAdvances =>
            /\ OffsetOf(next_line)' > OffsetOf(next_line)
            /\ AfterNewline(file_content, OffsetOf(next_line)) >= 0
                  => OffsetOf(next_line)' = AfterNewline(file_content, OffsetOf(next_line))]_vars
    /\ (Scanning ~> pc = "done")

(* C10 amended: as stated, except that offset 0 is tested unconditionally,
   also when the content is empty; every other tested line start lies
   before the length of the content. *)
C10_ScanTerminatesInBoundsButFirst ==
    /\ [](\A o \in tested : o = 0 \/ o < length)
    /\ [][ScanAdvances =>
            /\ OffsetOf(next_line)' > OffsetOf(next_line)
            /\ AfterNewline(file_content, OffsetOf(next_line)) >= 0
                  => OffsetOf(next_line)' = AfterNewline(file_content, OffsetOf(next_line))]_vars
    /\ (Scanning ~> pc = "done")

C10_Witness ==
    /\ StatusDone
    /\ success = G_FALSE
    /\ file_content = LINE_header \o <<NL>> \o LINE_sda12 \o <<NL>> \o LINE_dm2
    /\ tested = {0, Len(LINE_header) + 1, Len(LINE_header) + Len(LINE_sda12) + 2}
    /\ next_line = 1

====
